---- MODULE Spec2Model ----
(***************************************************************************)
(* LettersAI: the document finder of app.py (Streamlit UI over a           *)
(* persistent Chroma collection) and of poc_free.py (command line, in      *)
(* memory collection).                                                     *)
(*                                                                         *)
(* Text is a sequence of Unicode code points, a file is a sequence of      *)
(* bytes.  A collection is the ordered list of its rows.  Document         *)
(* identifiers "doc_<n>" are modelled by the number n.                     *)
(***************************************************************************)
EXTENDS Integers, Sequences, FiniteSets, TLC

VARIABLES program, collection, persisted, dirty, pc, queue, current_count, i,
          delQueue, out, call, deleted

vars == <<program, collection, persisted, dirty, pc, queue, current_count, i,
          delQueue, out, call, deleted>>

\* ------------------------------------------------------------------ bounds
MaxDocs == 2
MaxBatch == 2
MaxDel == 2

\* ------------------------------------------------------- sequence helpers
Min(a, b) == IF a < b THEN a ELSE b

Take(s, n) == SubSeq(s, 1, Min(n, Len(s)))

Range(s) == {s[k] : k \in DOMAIN s}

RECURSIVE Rep(_, _)
Rep(s, n) == IF n = 0 THEN <<>> ELSE s \o Rep(s, n - 1)

\* Python `needle in text` for strings: needle occurs as a contiguous run.
Contains(text, needle) ==
    \E k \in 0..(Len(text) - Len(needle)) :
        SubSeq(text, k + 1, k + Len(needle)) = needle

\* ------------------------------------------------------------ UTF-8 decode
IsCont(b) == b >= 128 /\ b <= 191

\* bytes.decode("utf-8"), strict: the code points, or a failure.
RECURSIVE DecodeFrom(_, _, _)
DecodeFrom(b, k, acc) ==
    IF k > Len(b) THEN [ok |-> TRUE, text |-> acc]
    ELSE IF b[k] < 128 THEN DecodeFrom(b, k + 1, Append(acc, b[k]))
    ELSE IF b[k] >= 194 /\ b[k] <= 223 THEN
        IF k + 1 <= Len(b) /\ IsCont(b[k + 1])
        THEN DecodeFrom(b, k + 2,
                 Append(acc, (b[k] - 192) * 64 + (b[k + 1] - 128)))
        ELSE [ok |-> FALSE, text |-> <<>>]
    ELSE IF b[k] >= 224 /\ b[k] <= 239 THEN
        IF k + 2 <= Len(b) /\ IsCont(b[k + 1]) /\ IsCont(b[k + 2])
        THEN LET cp == (b[k] - 224) * 4096 + (b[k + 1] - 128) * 64
                       + (b[k + 2] - 128)
             IN  IF cp < 2048 \/ (cp >= 55296 /\ cp <= 57343)
                 THEN [ok |-> FALSE, text |-> <<>>]
                 ELSE DecodeFrom(b, k + 3, Append(acc, cp))
        ELSE [ok |-> FALSE, text |-> <<>>]
    ELSE IF b[k] >= 240 /\ b[k] <= 244 THEN
        IF k + 3 <= Len(b) /\ IsCont(b[k + 1]) /\ IsCont(b[k + 2])
           /\ IsCont(b[k + 3])
        THEN LET cp == (b[k] - 240) * 262144 + (b[k + 1] - 128) * 4096
                       + (b[k + 2] - 128) * 64 + (b[k + 3] - 128)
             IN  IF cp < 65536 \/ cp > 1114111
                 THEN [ok |-> FALSE, text |-> <<>>]
                 ELSE DecodeFrom(b, k + 4, Append(acc, cp))
        ELSE [ok |-> FALSE, text |-> <<>>]
    ELSE [ok |-> FALSE, text |-> <<>>]

Utf8Decode(b) == DecodeFrom(b, 1, <<>>)

\* ---------------------------------------------------------------- inputs
\* Uploaded files (name, bytes).  D7 90 = alef, D7 91 = bet,
\* D7 B2 / D7 B1 / D7 B0 = the three Yiddish ligatures, 63 61 74 20 = "cat ".
FileHe    == [name |-> "he.txt",    bytes |-> <<215, 144, 215, 145>>]
FileYi2   == [name |-> "yi2.txt",   bytes |-> <<215, 178, 215, 144>>]
FileYi1   == [name |-> "yi1.txt",   bytes |-> <<215, 177>>]
FileYi0   == [name |-> "yi0.txt",   bytes |-> <<215, 144, 215, 176>>]
FileLong  == [name |-> "long.txt",  bytes |-> Rep(<<99, 97, 116, 32>>, 13)]
FileEmpty == [name |-> "empty.txt", bytes |-> <<>>]
FileBad   == [name |-> "bad.txt",   bytes |-> <<215, 144, 215>>]

Files == {FileHe, FileYi2, FileYi1, FileYi0, FileLong, FileEmpty, FileBad}

\* Questions typed into the search box: "cat", "Cat nap", " ".
Queries == {<<99, 97, 116>>, <<67, 97, 116, 32, 110, 97, 112>>, <<32>>}

Langs == {"he", "yi"}

DupPolicies == {"raise", "ignore"}

SeqsUpTo(S, n) == UNION {[1..m -> S] : m \in 0..n}

\* ------------------------------------------------------- collaborators
\* model.encode(text).tolist(): deterministic, fixed dimensionality.
\* The stand-in separates ASCII from non-ASCII text.
RECURSIVE CountAscii(_)
CountAscii(t) ==
    IF t = <<>> THEN 0
    ELSE (IF Head(t) < 128 THEN 1 ELSE 0) + CountAscii(Tail(t))

Embed(text) ==
    LET a == CountAscii(text)
        n == Len(text) - a
    IN  <<1 + a - n, 1 + n - a>>

\* argostranslate.translate.translate(text, lang, "en"): every source
\* character is rendered with the source language it was read in.
Translate(text, lang) == [k \in 1..Len(text) |-> <<lang, text[k]>>]

\* ------------------------------------------------------ language detection
YiddishMarkers == <<<<1522>>, <<1521>>, <<1520>>>>

RECURSIVE AnyMarkerIn(_, _)
AnyMarkerIn(markers, text) ==
    IF markers = <<>> THEN FALSE
    ELSE IF Contains(text, Head(markers)) THEN TRUE
    ELSE AnyMarkerIn(Tail(markers), text)

\* Variant that overlooks the double vav.
DetectLanguageTwoMarkers(text) ==
    IF AnyMarkerIn(SubSeq(YiddishMarkers, 1, 2), text) THEN "yi" ELSE "he"

DetectLanguage(text) ==
    IF AnyMarkerIn(YiddishMarkers, text) THEN "yi" ELSE "he"

\* ------------------------------------------------------------- the store
Ids(coll) == {coll[k].id : k \in DOMAIN coll}

\* collection.add of one row.  Chroma never stores a second row under an
\* identifier it already holds: depending on the release the call raises
\* or is ignored; in both the stored row stays as it was.
CollectionAdd(coll, row, dupPolicy) ==
    IF row.id \in Ids(coll)
    THEN [status |-> IF dupPolicy = "raise" THEN "add_raised"
                     ELSE "add_ignored",
          collection |-> coll]
    ELSE [status |-> "added", collection |-> Append(coll, row)]

\* Variant that only looks at the oldest row.
CollectionDeleteFirstOnly(coll, doc_id) ==
    IF coll # <<>> /\ Head(coll).id = doc_id THEN Tail(coll) ELSE coll

\* Variant that also drops every row stored after the one deleted.
CollectionDeleteTruncate(coll, doc_id) ==
    IF doc_id \in Ids(coll)
    THEN SubSeq(coll, 1, (CHOOSE k \in DOMAIN coll : coll[k].id = doc_id) - 1)
    ELSE coll

\* collection.delete(ids=[doc_id]): unknown identifiers are ignored.
CollectionDelete(coll, doc_id) == SelectSeq(coll, LAMBDA r : r.id # doc_id)

\* collection.get(): parallel lists.
CollectionGet(coll) ==
    [ids       |-> [k \in 1..Len(coll) |-> coll[k].id],
     documents |-> [k \in 1..Len(coll) |-> coll[k].text],
     metadatas |-> [k \in 1..Len(coll) |->
                       [lang |-> coll[k].lang, filename |-> coll[k].filename]]]

Dist(u, v) == (u[1] - v[1]) * (u[1] - v[1]) + (u[2] - v[2]) * (u[2] - v[2])

\* collection.query(query_embeddings=[qv], n_results=n): the nearest rows
\* by squared L2 distance, nearest first; equal distances in any order.
\* An empty collection gives an empty list.
CollectionQuery(coll, qv, n) ==
    LET k == Min(n, Len(coll))
        d(j) == Dist(qv, coll[j].vec)
    IN  {[a \in 1..k |-> coll[idx[a]]] :
            idx \in {f \in [1..k -> 1..Len(coll)] :
                        /\ \A a, b \in 1..k : a < b =>
                               f[a] # f[b] /\ d(f[a]) <= d(f[b])
                        /\ \A j \in 1..Len(coll) :
                               (\A a \in 1..k : f[a] # j) =>
                                   \A a \in 1..k : d(f[a]) <= d(j)}}

\* ---------------------------------------------------------- index_document
NoFilename == ""

\* Variant that stores the row before the vector is known.
IndexDocumentAddFirst(coll, doc_id, text, lang, filename, embedOk, dupPolicy) ==
    LET r == CollectionAdd(coll,
                 [id |-> doc_id,
                  vec |-> IF embedOk THEN Embed(text) ELSE <<>>,
                  text |-> text, lang |-> lang, filename |-> filename],
                 dupPolicy)
    IN  [status |-> IF embedOk THEN r.status ELSE "embed_failed",
         collection |-> r.collection, embedCalls |-> 1]

\* index_document of both programs: embed, then add.
IndexDocument(coll, doc_id, text, lang, filename, embedOk, dupPolicy) ==
    IF ~embedOk
    THEN [status |-> "embed_failed", collection |-> coll, embedCalls |-> 1]
    ELSE LET r == CollectionAdd(coll,
                      [id |-> doc_id, vec |-> Embed(text), text |-> text,
                       lang |-> lang, filename |-> filename], dupPolicy)
         IN  [status |-> r.status, collection |-> r.collection,
              embedCalls |-> 1]

\* ------------------------------------------------------------------ state
NoOut == [kind |-> "none", err |-> "", query |-> <<>>, matches |-> <<>>,
          n |-> 0]

NoCall == [op |-> "none", status |-> "none", id |-> 0, ids |-> <<>>,
           text |-> <<>>, lang |-> "", pre |-> <<>>, embedCalls |-> 0]

Init ==
    /\ program \in {"app", "poc_free"}
    /\ collection = <<>>
    /\ persisted = <<>>
    /\ dirty = 0
    /\ pc = "idle"
    /\ queue = <<>>
    /\ current_count = 0
    /\ i = 0
    /\ delQueue = <<>>
    /\ out = NoOut
    /\ call = NoCall
    /\ deleted = {}

Bump(before, after) == IF after # before THEN 1 ELSE 0

\* ------------------------------------------- app.py: "Index Documents"
ClickIndex ==
    /\ program = "app"
    /\ pc = "idle"
    /\ \E files \in SeqsUpTo(Files,
                            Min(MaxBatch, MaxDocs - Len(collection))) :
        /\ IF files = <<>>
           THEN /\ out' = [NoOut EXCEPT !.kind = "upload_required"]
                /\ UNCHANGED <<pc, queue, current_count>>
           ELSE /\ out' = NoOut
                /\ pc' = "index_loop"
                /\ queue' = files
                /\ current_count' = Len(CollectionGet(collection).documents)
    /\ i' = 0
    /\ call' = NoCall
    /\ UNCHANGED <<program, collection, persisted, dirty, delQueue, deleted>>

Abort(err) ==
    /\ out' = [NoOut EXCEPT !.kind = "error", !.err = err]
    /\ pc' = "idle"
    /\ queue' = <<>>
    /\ current_count' = 0
    /\ i' = 0

\* One pass of the loop body up to and including collection.add.
IndexFile ==
    /\ program = "app"
    /\ pc = "index_loop"
    /\ queue # <<>>
    /\ LET file   == Head(queue)
           dec    == Utf8Decode(file.bytes)
           doc_id == current_count + i
       IN  IF ~dec.ok
           THEN /\ Abort("decode")
                /\ call' = [NoCall EXCEPT !.op = "index",
                               !.status = "decode_failed", !.id = doc_id,
                               !.pre = collection]
                /\ UNCHANGED <<collection, dirty, deleted>>
           ELSE \E embedOk \in BOOLEAN, dupPolicy \in DupPolicies :
                LET lang == DetectLanguage(dec.text)
                    r    == IndexDocument(collection, doc_id, dec.text, lang,
                                          NoFilename, embedOk, dupPolicy)
                IN  /\ call' = [NoCall EXCEPT !.op = "index",
                                   !.status = r.status, !.id = doc_id,
                                   !.text = dec.text, !.lang = lang,
                                   !.pre = collection,
                                   !.embedCalls = r.embedCalls]
                    /\ collection' = r.collection
                    /\ dirty' = dirty + Bump(collection, r.collection)
                    /\ deleted' = IF r.status = "added"
                                  THEN deleted \ {doc_id} ELSE deleted
                    /\ IF r.status \in {"embed_failed", "add_raised"}
                       THEN Abort(IF r.status = "embed_failed"
                                  THEN "embed" ELSE "add")
                       ELSE /\ pc' = "index_persist"
                            /\ UNCHANGED <<out, queue, current_count, i>>
    /\ UNCHANGED <<program, persisted, delQueue>>

\* collection.persist() at the end of index_document, then the loop tail.
IndexPersist ==
    /\ program = "app"
    /\ pc = "index_persist"
    /\ persisted' = collection
    /\ dirty' = 0
    /\ IF Tail(queue) = <<>>
       THEN /\ pc' = "idle"
            /\ out' = [NoOut EXCEPT !.kind = "indexed", !.n = i + 1]
            /\ queue' = <<>>
            /\ current_count' = 0
            /\ i' = 0
            /\ call' = NoCall
       ELSE /\ pc' = "index_loop"
            /\ queue' = Tail(queue)
            /\ i' = i + 1
            /\ UNCHANGED <<out, current_count, call>>
    /\ UNCHANGED <<program, collection, delQueue, deleted>>

\* --------------------------------------- app.py: delete_documents(ids)
\* The identifiers passed to delete_documents: the ones listed on the page,
\* and one that no document ever carries.
UnknownId == MaxDocs

\* [d['id'] for d in docs if label in to_delete]: a selection of at most
\* MaxDel identifiers, in the order of the listing.
Pick(s, chosen) == SelectSeq(s, LAMBDA x : x \in chosen)

DeleteInputs(coll) ==
    LET listed == CollectionGet(coll).ids \o <<UnknownId>>
    IN  {Pick(listed, chosen) :
            chosen \in {c \in SUBSET Range(listed) :
                            c # {} /\ Cardinality(c) <= MaxDel}}

DeleteDocuments ==
    /\ program = "app"
    /\ pc = "idle"
    /\ \E ids \in DeleteInputs(collection) :
        /\ delQueue' = ids
        /\ call' = [NoCall EXCEPT !.op = "delete", !.status = "running",
                       !.ids = ids, !.pre = collection]
    /\ pc' = "delete_loop"
    /\ out' = NoOut
    /\ UNCHANGED <<program, collection, persisted, dirty, queue,
                   current_count, i, deleted>>

\* One pass of the loop: collection.delete(ids=[doc_id]).
DeleteOne ==
    /\ program = "app"
    /\ pc = "delete_loop"
    /\ delQueue # <<>>
    /\ collection' = CollectionDelete(collection, Head(delQueue))
    /\ dirty' = dirty + Bump(collection, collection')
    /\ delQueue' = Tail(delQueue)
    /\ UNCHANGED <<program, persisted, pc, queue, current_count, i, out,
                   call, deleted>>

\* collection.persist() after the loop.
DeletePersist ==
    /\ program = "app"
    /\ pc = "delete_loop"
    /\ delQueue = <<>>
    /\ persisted' = collection
    /\ dirty' = 0
    /\ pc' = "idle"
    /\ out' = [NoOut EXCEPT !.kind = "deleted", !.n = Len(call.ids)]
    /\ call' = [call EXCEPT !.status = "done"]
    /\ deleted' = deleted \cup (Range(call.ids) \cap Ids(call.pre))
    /\ UNCHANGED <<program, collection, queue, current_count, i, delQueue>>

\* ------------------------------------------------- app.py: list_documents
PreviewLen == 50

\* Variant that shows the whole document.
ListDocumentsWholeText(coll) ==
    LET docs == CollectionGet(coll)
    IN  [k \in 1..Len(docs.documents) |->
            [id |-> docs.ids[k], lang |-> docs.metadatas[k].lang,
             content_preview |-> docs.documents[k]]]

ListDocuments(coll) ==
    LET docs == CollectionGet(coll)
        n    == Min(Len(docs.documents), Len(docs.metadatas))
    IN  [k \in 1..n |->
            [id |-> docs.ids[k], lang |-> docs.metadatas[k].lang,
             content_preview |-> Take(docs.documents[k], PreviewLen)]]

\* ---------------------------------------------------------------- search
Whitespace == {9, 10, 11, 12, 13, 28, 29, 30, 31, 32, 133, 160}

RECURSIVE LStrip(_)
LStrip(t) ==
    IF t # <<>> /\ Head(t) \in Whitespace THEN LStrip(Tail(t)) ELSE t

RECURSIVE RStrip(_)
RStrip(t) ==
    IF t # <<>> /\ t[Len(t)] \in Whitespace
    THEN RStrip(SubSeq(t, 1, Len(t) - 1)) ELSE t

Strip(t) == RStrip(LStrip(t))

Match(row) == [id |-> row.id, filename |-> row.filename, lang |-> row.lang,
               translated |-> Translate(row.text, row.lang)]

\* Variant that tests the outer list, which is never empty, and then
\* fails on the missing first document.
AppSearchNoEmptyCheck(coll, query, embedOk) ==
    IF ~embedOk
    THEN {[NoOut EXCEPT !.kind = "search_error", !.err = "embed",
                        !.query = query]}
    ELSE {IF results = <<>>
          THEN [NoOut EXCEPT !.kind = "search_error", !.err = "index",
                             !.query = query]
          ELSE [kind |-> "answer", err |-> "", query |-> query,
                matches |-> <<Match(results[1])>>, n |-> 1] :
            results \in CollectionQuery(coll, Embed(query), 1)}

\* app.py search(query): the outcomes it can produce.
AppSearch(coll, query, embedOk) ==
    IF ~embedOk
    THEN {[NoOut EXCEPT !.kind = "search_error", !.err = "embed",
                        !.query = query]}
    ELSE {IF results = <<>>
          THEN [NoOut EXCEPT !.kind = "no_documents", !.query = query]
          ELSE [kind |-> "answer", err |-> "", query |-> query,
                matches |-> <<Match(results[1])>>, n |-> 1] :
            results \in CollectionQuery(coll, Embed(query), 1)}

ClickSearch ==
    /\ program = "app"
    /\ pc = "idle"
    /\ \E query \in Queries, embedOk \in BOOLEAN :
        IF Strip(query) = <<>>
        THEN out' = [NoOut EXCEPT !.kind = "enter_question"]
        ELSE out' \in AppSearch(collection, query, embedOk)
    /\ call' = NoCall
    /\ UNCHANGED <<program, collection, persisted, dirty, pc, queue,
                   current_count, i, delQueue, deleted>>

\* The process is stopped and started again: the collection is the one
\* last persisted.
Restart ==
    /\ program = "app"
    /\ collection' = persisted
    /\ dirty' = 0
    /\ pc' = "idle"
    /\ queue' = <<>>
    /\ current_count' = 0
    /\ i' = 0
    /\ delQueue' = <<>>
    /\ out' = NoOut
    /\ call' = NoCall
    /\ UNCHANGED <<program, persisted, deleted>>

\* ---------------------------------------------------------- poc_free.py
PocIds == 1..MaxDocs

\* The files the command-line program is pointed at, each with the
\* language its caller declares for it.
PocDocs == {<<FileHe, "he">>, <<FileYi2, "yi">>, <<FileBad, "he">>}

PocPrintLen == 1000

PocIndexDocument ==
    /\ program = "poc_free"
    /\ \E doc_id \in PocIds, doc \in PocDocs :
        LET file == doc[1]
            lang == doc[2]
            dec  == Utf8Decode(file.bytes)
        IN  /\ Len(collection) < MaxDocs \/ doc_id \in Ids(collection)
            /\ IF ~dec.ok
               THEN /\ call' = [NoCall EXCEPT !.op = "index",
                                   !.status = "decode_failed", !.id = doc_id,
                                   !.pre = collection]
                    /\ out' = [NoOut EXCEPT !.kind = "error",
                                  !.err = "decode"]
                    /\ UNCHANGED collection
               ELSE \E embedOk \in BOOLEAN, dupPolicy \in DupPolicies :
                    LET r == IndexDocument(collection, doc_id, dec.text, lang,
                                           file.name, embedOk, dupPolicy)
                    IN  /\ call' = [NoCall EXCEPT !.op = "index",
                                       !.status = r.status, !.id = doc_id,
                                       !.text = dec.text, !.lang = lang,
                                       !.pre = collection,
                                       !.embedCalls = r.embedCalls]
                        /\ collection' = r.collection
                        /\ out' = IF r.status \in {"added", "add_ignored"}
                                  THEN [NoOut EXCEPT !.kind = "indexed",
                                           !.n = 1]
                                  ELSE [NoOut EXCEPT !.kind = "error",
                                           !.err =
                                               IF r.status = "embed_failed"
                                               THEN "embed" ELSE "add"]
    /\ UNCHANGED <<program, persisted, dirty, pc, queue, current_count, i,
                   delQueue, deleted>>

\* poc_free.py search(query, n): one printed match per result.
PocSearchOutcomes(coll, query, n, embedOk) ==
    IF ~embedOk
    THEN {[NoOut EXCEPT !.kind = "search_error", !.err = "embed",
                        !.query = query]}
    ELSE {[kind |-> "matches", err |-> "", query |-> query,
           matches |-> [k \in 1..Len(results) |->
                           [Match(results[k]) EXCEPT !.translated =
                               Take(@, PocPrintLen)]],
           n |-> Len(results)] :
            results \in CollectionQuery(coll, Embed(query), n)}

PocSearch ==
    /\ program = "poc_free"
    /\ \E query \in Queries, n \in 1..2, embedOk \in BOOLEAN :
        /\ Strip(query) = query
        /\ out' \in PocSearchOutcomes(collection, query, n, embedOk)
    /\ call' = NoCall
    /\ UNCHANGED <<program, collection, persisted, dirty, pc, queue,
                   current_count, i, delQueue, deleted>>

Next ==
    \/ ClickIndex
    \/ IndexFile
    \/ IndexPersist
    \/ DeleteDocuments
    \/ DeleteOne
    \/ DeletePersist
    \/ ClickSearch
    \/ Restart
    \/ PocIndexDocument
    \/ PocSearch

Spec == Init /\ [][Next]_vars

\* ------------------------------------------------ relevance score (4.2)
ThresholdTenths == 3

BoostTenths == 2

Lower(t) ==
    [k \in 1..Len(t) |-> IF t[k] >= 65 /\ t[k] <= 90 THEN t[k] + 32 ELSE t[k]]

\* The whitespace-delimited tokens of t.
Tokens(t) ==
    {SubSeq(t, a, b) : <<a, b>> \in
        {p \in (1..Len(t)) \X (1..Len(t)) :
            /\ p[1] <= p[2]
            /\ \A k \in p[1]..p[2] : t[k] \notin Whitespace
            /\ p[1] = 1 \/ t[p[1] - 1] \in Whitespace
            /\ p[2] = Len(t) \/ t[p[2] + 1] \in Whitespace}}

HasBoost(query, candidate) ==
    \E tok \in Tokens(Lower(query)) : Contains(Lower(candidate), tok)

Dot(u, v) == u[1] * v[1] + u[2] * v[2]

\* cosine(query, candidate) + boost < 0.3, in exact integer arithmetic.
BelowThreshold(query, candidate) ==
    LET u == Embed(query)
        v == Embed(candidate)
        d == Dot(u, v)
        t == ThresholdTenths
             - (IF HasBoost(query, candidate) THEN BoostTenths ELSE 0)
    IN  d <= 0 \/ 100 * d * d < t * t * Dot(u, u) * Dot(v, v)

\* The best score among the indexed candidates is below the threshold.
BestBelow(query, coll) ==
    \A k \in DOMAIN coll : BelowThreshold(query, coll[k].text)

\* ------------------------------------------------------------ properties
SearchKinds == {"answer", "no_documents", "matches", "search_error"}

RowsOf(coll, doc_id) == {k \in DOMAIN coll : coll[k].id = doc_id}

\* C1: in the upload handler, the identifier about to be given to the next
\* file of the batch (current_count + i) is not the identifier of any
\* document in the collection at that moment.
C1_AssignedIdIsFresh ==
    (program = "app" /\ pc = "index_loop") =>
        (current_count + i) \notin Ids(collection)

\* C2: after index_document is called with an identifier already in the
\* index and a different text, exactly one row is stored under that
\* identifier, holding the text, vector and language of that call, and
\* list_documents has exactly one entry for it.
C2_ReindexReplaces ==
    (/\ call.op = "index"
     /\ call.status \in {"added", "add_ignored", "add_raised"}
     /\ \E k \in DOMAIN call.pre :
            call.pre[k].id = call.id /\ call.pre[k].text # call.text)
    => /\ Cardinality(RowsOf(collection, call.id)) = 1
       /\ \A k \in RowsOf(collection, call.id) :
            /\ collection[k].text = call.text
            /\ collection[k].lang = call.lang
            /\ collection[k].vec = Embed(call.text)
       /\ Cardinality(RowsOf(ListDocuments(collection), call.id)) = 1

\* C3: the identifier of a document removed by a completed delete_documents
\* and not indexed again is in no row of the collection, in no record of
\* list_documents and in no match returned by search.
C3_NoStaleAfterDelete ==
    \A d \in deleted :
        /\ d \notin Ids(collection)
        /\ RowsOf(ListDocuments(collection), d) = {}
        /\ \A k \in DOMAIN out.matches : out.matches[k].id # d

C3_Witness ==
    /\ program = "app"
    /\ out.kind = "answer"
    /\ deleted # {}

\* C4: a search over a non-empty index whose best score is below 0.3
\* returns no document text.
C4_BelowThresholdRejected ==
    (/\ out.kind \in {"answer", "no_documents", "matches"}
     /\ collection # <<>>
     /\ BestBelow(out.query, collection))
    => out.matches = <<>>

C6_PersistAfterEveryMutation == dirty <= 1

\* C7: when the decode or the embedding fails inside an indexing call, the
\* failure is reported, nothing is retried and the collection is exactly
\* what it was before the call; every stored row has its vector, text and
\* language.
C7_IndexAllOrNothing ==
    /\ (call.op = "index" /\ call.status \in {"decode_failed", "embed_failed"})
       => /\ collection = call.pre
          /\ out.kind = "error"
          /\ pc = "idle"
          /\ call.embedCalls <= 1
    /\ \A k \in DOMAIN collection :
          /\ collection[k].vec = Embed(collection[k].text)
          /\ collection[k].lang \in Langs

C7_Witness ==
    /\ program = "app"
    /\ call.op = "index"
    /\ call.status = "embed_failed"
    /\ call.id > 0
    /\ collection # <<>>

\* C8: a completed delete_documents(ids) leaves the identifiers that were
\* indexed minus ids, every remaining row as it was, and is a no-op for
\* identifiers that were not indexed.
C8_DeleteExactly ==
    (call.op = "delete" /\ call.status = "done")
    => /\ Ids(collection) = Ids(call.pre) \ Range(call.ids)
       /\ \A r \in Range(call.pre) :
            r.id \notin Range(call.ids) => r \in Range(collection)
       /\ Range(collection) \subseteq Range(call.pre)
       /\ Len(collection) = Cardinality(Ids(collection))
       /\ (Range(call.ids) \cap Ids(call.pre) = {} => collection = call.pre)
       /\ out.kind = "deleted"

C8_Witness ==
    /\ call.op = "delete"
    /\ call.status = "done"
    /\ Range(call.ids) \cap Ids(call.pre) # {}
    /\ Range(call.ids) \ Ids(call.pre) # {}
    /\ collection # <<>>

\* C9: list_documents has exactly one record per indexed document, with
\* its identifier, its stored language and the first 50 characters of its
\* text (the whole text when shorter).
C9_ListMatchesIndex ==
    LET L == ListDocuments(collection)
    IN  /\ Len(L) = Cardinality(Ids(collection))
        /\ \A k \in DOMAIN L : L[k].id \in Ids(collection)
        /\ \A r \in Range(collection) :
            /\ Cardinality(RowsOf(L, r.id)) = 1
            /\ \A k \in RowsOf(L, r.id) :
                /\ L[k].lang = r.lang
                /\ L[k].content_preview =
                       IF Len(r.text) < 50 THEN r.text
                       ELSE [j \in 1..50 |-> r.text[j]]

C9_Witness ==
    /\ Len(collection) = 2
    /\ \E r \in Range(collection) : Len(r.text) > 50
    /\ \E r \in Range(collection) : Len(r.text) < 50 /\ r.lang = "yi"

HasMarker(text) == \E k \in DOMAIN text : text[k] \in {1520, 1521, 1522}

\* C10: detect_language answers "yi" exactly for the texts that hold one of
\* the three marker characters and "he" for all others, the empty text
\* included, and the language stored by the upload handler is that answer.
C10_DetectLanguage ==
    /\ \A f \in Files :
        LET text == Utf8Decode(f.bytes).text
        IN  DetectLanguage(text) = (IF HasMarker(text) THEN "yi" ELSE "he")
    /\ DetectLanguage(<<>>) = "he"
    /\ program = "app" =>
        \A r \in Range(collection) :
            r.lang = (IF HasMarker(r.text) THEN "yi" ELSE "he")

C10_Witness ==
    /\ program = "app"
    /\ \E r \in Range(collection) : r.lang = "yi" /\ 1520 \in Range(r.text)
    /\ \E r \in Range(collection) : r.lang = "he" /\ r.text = <<>>
====
